---------------------------- MODULE Spec2Model ----------------------------
(***************************************************************************)
(* Model of get_workflow_version/main.py: the parser of a referenced       *)
(* workflow path (ReusableWorkflow.from_github_api) and the command `main` *)
(* that asks the GitHub API for a run, classifies the HTTP outcome, parses *)
(* and filters `referenced_workflows` and emits the resolved version.      *)
(*                                                                         *)
(* Text that the code parses (a workflow path, the fields cut out of it)   *)
(* is a sequence of one-character strings; text that the code only copies *)
(* or formats (sha, token, messages, URLs) is a string.                    *)
(***************************************************************************)
EXTENDS Integers, Sequences, FiniteSets, TLC

VARIABLES
    \* ---- one call of ReusableWorkflow.from_github_api (SpecParse) ----
    path,              \* the `path` argument
    sha,               \* the `sha` argument
    ppc,               \* "call" before the call, "returned" after it
    result,            \* what the call produced
    \* ---- one invocation of main (Spec) ----
    pc,                \* position in main
    environ,           \* os.environ: GH_TOKEN and GITHUB_OUTPUT, when set
    args,              \* the command-line arguments of main
    files,             \* content of the file GITHUB_OUTPUT names (its lines)
    token,             \* local `token`
    headers,           \* local `headers`
    requests,          \* every requests.get issued so far: [url, headers]
    responses,         \* the response received to each of them
    all_workflows,     \* local `all_workflows`
    stdout,            \* what print() wrote
    error              \* the exception main ended with, if any

parseVars == <<path, sha, ppc, result>>
mainVars == <<pc, environ, args, files, token, headers, requests, responses,
              all_workflows, stdout, error>>
vars == <<path, sha, ppc, result, pc, environ, args, files, token, headers,
          requests, responses, all_workflows, stdout, error>>

----------------------------------------------------------------------------
(* Values *)

\* Python's None, and a value that is present: an optional is a sequence of
\* length 0 or 1.
None == <<>>
Some(v) == <<v>>
\* Python truthiness of an optional string: None and "" are falsy.
Truthy(o) == o # None /\ o[1] # ""

RECURSIVE Str(_)
\* The string made of a sequence of characters.
Str(s) == IF s = <<>> THEN "" ELSE s[1] \o Str(Tail(s))

\* Two characters of the messages that a TLA+ string cannot hold, written as
\* their code points.
Backtick == "<U+0060>"
Bullet == "<U+2022>"

\* repr() of a str without quotes or escapes in it.
Repr(s) == "'" \o s \o "'"

----------------------------------------------------------------------------
(* ReusableWorkflow.from_github_api *)

\* The literal "/\.github/workflows/" of the pattern.
Marker == <<"/", ".", "g", "i", "t", "h", "u", "b", "/",
            "w", "o", "r", "k", "f", "l", "o", "w", "s", "/">>

\* `.` of a pattern compiled without DOTALL: any character but a newline.
Dot(c) == c # "\n"
\* `.*` (greedy or lazy) can consume exactly the text s.
DotStar(s) == \A k \in 1..Len(s) : Dot(s[k])

\* Positions i such that the literal marker occupies path[i+1 .. i+19].
MarkerAt(p) ==
    {i \in 0..(Len(p) - Len(Marker)) :
        p[i + 1] = Marker[1] /\ SubSeq(p, i + 1, i + Len(Marker)) = Marker}

\* Every way the whole of p matches
\*   (?P<repository>.*?)/\.github/workflows/(?P<file_name>.*?)@(?P<ref>.*?)
\* as <<i, j>>: repository is p[1..i], the marker follows, file_name runs up
\* to j-1, p[j] is the "@" and ref is the rest.
FullMatches(p) ==
    {m \in MarkerAt(p) \X (1..Len(p)) :
        /\ m[2] > m[1] + Len(Marker)
        /\ p[m[2]] = "@"
        /\ DotStar(SubSeq(p, 1, m[1]))
        /\ DotStar(SubSeq(p, m[1] + Len(Marker) + 1, m[2] - 1))
        /\ DotStar(SubSeq(p, m[2] + 1, Len(p)))}

\* A greedy file_name group: the longest file_name among the matches with the
\* shortest repository.
GreedyFileNameMatch(p) ==
    CHOOSE m \in FullMatches(p) : \A n \in FullMatches(p) :
        m[1] < n[1] \/ (m[1] = n[1] /\ m[2] >= n[2])

\* The match re.fullmatch reports: a backtracking matcher tries the lazy
\* groups shortest first, repository before file_name.
LazyMatch(p) ==
    CHOOSE m \in FullMatches(p) : \A n \in FullMatches(p) :
        m[1] < n[1] \/ (m[1] = n[1] /\ m[2] <= n[2])

\* match.groupdict()
GroupDict(p, m) ==
    [repository |-> SubSeq(p, 1, m[1]),
     file_name  |-> SubSeq(p, m[1] + Len(Marker) + 1, m[2] - 1),
     ref        |-> SubSeq(p, m[2] + 1, Len(p))]

\* A failed `assert match`.
AssertionError == [ok |-> FALSE, error |-> "AssertionError"]

\* cls(sha=sha, **match.groupdict())
ReusableWorkflow(s, g) ==
    [ok |-> TRUE, sha |-> s, repository |-> g.repository,
     file_name |-> g.file_name, ref |-> g.ref]

from_github_api(p, s) ==
    IF FullMatches(p) = {}
    THEN AssertionError
    ELSE ReusableWorkflow(s, GroupDict(p, LazyMatch(p)))

----------------------------------------------------------------------------
(* Inputs of the parser *)

MaxPieces == 4

AtSign == <<"@">>
Pieces == {<<"a">>, <<"/">>, AtSign, <<"\n">>, Marker,
           <<"a", "@", "a">>, <<"@", "a">>}

RECURSIVE Texts(_)
\* Every concatenation of at most n pieces.
Texts(n) ==
    IF n = 0 THEN {<<>>}
    ELSE LET shorter == Texts(n - 1)
         IN  shorter \cup {t \o q : t \in shorter, q \in Pieces}

ShaArgs == {"", "abc123"}


----------------------------------------------------------------------------
(* main: names and values *)

\* os.environ.get(name)
EnvironGet(env, name) == IF name \in DOMAIN env THEN Some(env[name]) ELSE None

Range(f) == {f[k] : k \in DOMAIN f}

\* headers, as lines 84-90 leave them for a token read from the environment
Headers(tok) ==
    LET base == ("Accept" :> "application/vnd.github+json")
                @@ ("X-GitHub-Api-Version" :> "2022-11-28")
    IN  IF Truthy(tok)
        THEN base @@ ("Authorization" :> ("Bearer " \o tok[1]))
        ELSE base

\* f"{github_api_url}/repos/{caller_repository}/actions/runs/{caller_run_id}"
RunUrl(a) ==
    a.github_api_url \o "/repos/" \o a.caller_repository
        \o "/actions/runs/" \o ToString(a.caller_run_id)

\* f"{github_api_url}/repos/{caller_repository}"
RepoUrl(a) == a.github_api_url \o "/repos/" \o a.caller_repository

\* response.raise_for_status() raises for a status in 400..599 only
RaisesForStatus(status) == 400 <= status /\ status < 600

ClientOrServer(status) == IF status < 500 THEN "Client Error" ELSE "Server Error"

\* the requests.HTTPError that raise_for_status builds and line 118 re-raises
HTTPError(resp, url) ==
    [type |-> "HTTPError",
     message |-> ToString(resp.status_code) \o " " \o ClientOrServer(resp.status_code)
                 \o ": " \o resp.reason \o " for url: " \o url]

\* lines 99-102
PermissionsException ==
    [type |-> "Exception",
     message |-> "Ensure that GitHub job has " \o Backtick \o "permissions: actions: read"
                 \o Backtick \o ". GitHub API call 403 forbidden\n"
                 \o "https://docs.github.com/en/actions/security-guides/automatic-token-authentication#modifying-the-permissions-for-the-github_token"]

\* lines 109-111
RepositoryNotFoundCheckToken(a) ==
    [type |-> "Exception",
     message |-> "caller_repository=" \o Repr(a.caller_repository)
                 \o " not found. Check if " \o Backtick \o "github-token" \o Backtick
                 \o " input has correct permissions"]

\* lines 112-114
RepositoryNotFoundPassToken(a) ==
    [type |-> "Exception",
     message |-> "caller_repository=" \o Repr(a.caller_repository)
                 \o " not found. If repository is private, pass " \o Backtick
                 \o "github-token" \o Backtick \o " input to authenticate to GitHub"]

\* lines 108-114: the repository request answered 404
RepositoryNotFound(tok, a) ==
    IF Truthy(tok) THEN RepositoryNotFoundCheckToken(a) ELSE RepositoryNotFoundPassToken(a)

\* lines 115-117
RunNotFound(a) ==
    [type |-> "Exception",
     message |-> "Workflow run not found. Check if caller_run_id="
                 \o ToString(a.caller_run_id) \o " is valid"]

\* Lines 107-117 with every failed repository request read as "not found".
RepositoryCheckAnyFailure(tok, a, status) ==
    IF status >= 400 THEN RepositoryNotFound(tok, a) ELSE RunNotFound(a)

\* lines 107-117: what main raises once the repository request is answered
RepositoryCheck(tok, a, status) ==
    IF status = 404 THEN RepositoryNotFound(tok, a) ELSE RunNotFound(a)

\* response.json()["referenced_workflows"] of a body without that key
KeyError == [type |-> "KeyError", message |-> "'referenced_workflows'"]

HasReferencedWorkflows(body) == "referenced_workflows" \in DOMAIN body

\* lines 119-122: from_github_api mapped over the entries, in order
ParseAll(entries) ==
    [k \in 1..Len(entries) |-> from_github_api(entries[k].path, entries[k].sha)]

AllParsed(ws) == \A k \in 1..Len(ws) : ws[k].ok

\* The filter of lines 123-128 without the comparison of file_name.
MatchingRepositoryOnly(ws, a) ==
    {w \in Range(ws) : w.repository = a.reusable_workflow_repository}

\* lines 123-128: a set, so equal dataclass values are held once
Matching(ws, a) ==
    {w \in Range(ws) :
        /\ w.repository = a.reusable_workflow_repository
        /\ w.file_name = a.reusable_workflow_file_name}

\* f"{reusable_workflow_file_name=} {reusable_workflow_repository=}"
TargetText(a) ==
    "reusable_workflow_file_name=" \o Repr(Str(a.reusable_workflow_file_name))
        \o " reusable_workflow_repository=" \o Repr(Str(a.reusable_workflow_repository))

\* lines 130-132
NoReference(a) ==
    [type |-> "ValueError", message |-> "No reference found for " \o TargetText(a)]

\* f"\n<bullet> {workflow.ref} ({workflow.sha})"
VersionLine(w) == "\n" \o Bullet \o " " \o Str(w.ref) \o " (" \o w.sha \o ")"

RECURSIVE VersionLines(_)
VersionLines(order) ==
    IF order = <<>> THEN "" ELSE VersionLine(order[1]) \o VersionLines(Tail(order))

\* The orders in which `for workflow in workflows` may visit a set: the
\* iteration order of a Python set of str-hashed values is not fixed.
Orders(S) ==
    {o \in [1..Cardinality(S) -> S] : \A i, j \in DOMAIN o : o[i] = o[j] => i = j}

\* lines 134-137
MultipleVersions(a, order) ==
    [type |-> "ValueError",
     message |-> "Cannot resolve multiple versions found for " \o TargetText(a) \o ":"
                 \o VersionLines(order)]

\* line 139
ResultLine(w) == "Reusable workflow version: " \o w.sha \o " (ref: " \o Str(w.ref) \o ")"

\* line 142
OutputLine(w) == "sha=" \o w.sha \o "\n"

\* Lines 140-142 with the file opened for writing, not for appending.
WriteOutputTruncating(fs, env, w) ==
    LET output == EnvironGet(env, "GITHUB_OUTPUT")
    IN  IF ~Truthy(output) THEN fs
        ELSE IF output[1] \in DOMAIN fs
             THEN [fs EXCEPT ![output[1]] = <<OutputLine(w)>>]
             ELSE fs @@ (output[1] :> <<OutputLine(w)>>)

\* lines 140-142: nothing is written when GITHUB_OUTPUT is unset or empty;
\* open("a") appends, creating the file when it does not exist
WriteOutput(fs, env, w) ==
    LET output == EnvironGet(env, "GITHUB_OUTPUT")
    IN  IF ~Truthy(output) THEN fs
        ELSE IF output[1] \in DOMAIN fs
             THEN [fs EXCEPT ![output[1]] = Append(@, OutputLine(w))]
             ELSE fs @@ (output[1] :> <<OutputLine(w)>>)

\* Locals shown in the report of an uncaught exception.
ShowLocals == TRUE

\* line 11: typer.Typer(pretty_exceptions_show_locals=False)
PrettyExceptionsShowLocals == FALSE

\* What the report of an uncaught exception e shows, raised in a frame of main
\* whose locals hold tok and hdrs.
ErrorReport(e, tok, hdrs) ==
    IF PrettyExceptionsShowLocals
    THEN [exception |-> e, locals |-> [token |-> tok, headers |-> hdrs]]
    ELSE [exception |-> e]

\* lines 84-142 as a whole: every outcome (the exception raised if any, what is
\* printed, the files) of an invocation that reads the token tok, starts from
\* the files fs and receives the responses rs.
MainOutcomes(tok, a, env, fs, rs) ==
    LET failed(e) == [error |-> Some(e), stdout |-> <<>>, files |-> fs]
        r1 == rs[1]
    IN  IF RaisesForStatus(r1.status_code)
        THEN IF r1.status_code = 403 THEN {failed(PermissionsException)}
             ELSE IF r1.status_code = 404
             THEN {failed(RepositoryCheck(tok, a, rs[2].status_code))}
             ELSE {failed(HTTPError(r1, RunUrl(a)))}
        ELSE IF ~HasReferencedWorkflows(r1.body) THEN {failed(KeyError)}
        ELSE IF ~AllParsed(ParseAll(r1.body.referenced_workflows))
        THEN {failed([type |-> "AssertionError", message |-> ""])}
        ELSE LET workflows == Matching(ParseAll(r1.body.referenced_workflows), a)
             IN  IF workflows = {} THEN {failed(NoReference(a))}
                 ELSE IF Cardinality(workflows) > 1
                 THEN {failed(MultipleVersions(a, o)) : o \in Orders(workflows)}
                 ELSE {[error |-> None, stdout |-> <<ResultLine(w)>>,
                        files |-> WriteOutput(fs, env, w)] : w \in workflows}

----------------------------------------------------------------------------
(* Inputs of main *)

MaxEntries == 3

AcmeInfra == <<"a", "c", "m", "e", "/", "i", "n", "f", "r", "a">>
OtherRepo == <<"o", "/", "r">>
BuildYaml == <<"b", "u", "i", "l", "d", ".", "y", "a", "m", "l">>
LintYaml  == <<"l", "i", "n", "t", ".", "y", "m", "l">>
V200 == <<"v", "2", ".", "0", ".", "0">>
MainRef == <<"m", "a", "i", "n">>

\* "<repository>/.github/workflows/<file_name>@<ref>"
WorkflowPath(repository, file_name, ref) ==
    repository \o Marker \o file_name \o AtSign \o ref

\* Elements that "referenced_workflows" may hold: two versions of the
\* target workflow, another file of its repository, the same file of another
\* repository, and a path without the marker.
EntryPool ==
    { [path |-> WorkflowPath(AcmeInfra, BuildYaml, V200),    sha |-> "abc123"],
      [path |-> WorkflowPath(AcmeInfra, BuildYaml, MainRef), sha |-> "def456"],
      [path |-> WorkflowPath(AcmeInfra, LintYaml, V200),     sha |-> "abc123"],
      [path |-> WorkflowPath(OtherRepo, BuildYaml, MainRef), sha |-> "0a1b2c"],
      [path |-> AcmeInfra \o <<"/">> \o BuildYaml \o AtSign \o V200, sha |-> "abc123"] }

RECURSIVE EntryLists(_)
EntryLists(n) ==
    IF n = 0 THEN {<<>>}
    ELSE LET shorter == EntryLists(n - 1)
         IN  shorter \cup {Append(es, e) : es \in shorter, e \in EntryPool}

\* The JSON body of an error answer: an object without "referenced_workflows".
ErrorBody == [message |-> "Not Found"]

RunBodies == {ErrorBody} \cup {[referenced_workflows |-> es] : es \in EntryLists(MaxEntries)}

Statuses == {101, 200, 304, 400, 403, 404, 500}

Reason(status) ==
    CASE status = 101 -> "Switching Protocols"
      [] status = 200 -> "OK"
      [] status = 304 -> "Not Modified"
      [] status = 400 -> "Bad Request"
      [] status = 403 -> "Forbidden"
      [] status = 404 -> "Not Found"
      [] status = 500 -> "Internal Server Error"

\* Answers to the run request. The body of an answer that raise_for_status
\* rejects is never read; it is GitHub's error object.
RunResponses ==
    {[status_code |-> st, reason |-> Reason(st), body |-> b] :
        st \in {x \in Statuses : ~RaisesForStatus(x)}, b \in RunBodies}
    \cup {[status_code |-> st, reason |-> Reason(st), body |-> ErrorBody] :
        st \in {x \in Statuses : RaisesForStatus(x)}}

\* Answers to the repository request: only the status is read.
RepoResponses ==
    {[status_code |-> st, reason |-> Reason(st), body |-> ErrorBody] : st \in Statuses}

Tokens == {"", "ghs_AAAA", "ghs_BBBB"}
OutputPath == "/tmp/github_output"
OutputValues == {"", OutputPath}

Environs ==
    {e \in UNION {[D -> Tokens \cup OutputValues] : D \in SUBSET {"GH_TOKEN", "GITHUB_OUTPUT"}} :
        /\ "GH_TOKEN" \in DOMAIN e => e["GH_TOKEN"] \in Tokens
        /\ "GITHUB_OUTPUT" \in DOMAIN e => e["GITHUB_OUTPUT"] \in OutputValues}

\* What the output file holds before the invocation.
InitialFiles == {OutputPath :> <<>>, OutputPath :> <<"previous=1\n">>}

Arguments ==
    {[caller_repository |-> "octocat/Hello-World",
      caller_run_id |-> 1234,
      reusable_workflow_repository |-> AcmeInfra,
      reusable_workflow_file_name |-> f,
      github_api_url |-> "https://api.github.com"] : f \in {BuildYaml}}

----------------------------------------------------------------------------
(* main, step by step *)

Raise(e) == /\ error' = Some(e)
            /\ pc' = "done"

\* lines 84-90
SetUp ==
    /\ pc = "start"
    /\ token' = EnvironGet(environ, "GH_TOKEN")
    /\ headers' = Headers(EnvironGet(environ, "GH_TOKEN"))
    /\ pc' = "get_run"
    /\ UNCHANGED <<environ, args, files, requests, responses, all_workflows,
                   stdout, error>>
    /\ UNCHANGED parseVars

\* lines 91-94: the one request for the run, and its answer
GetRun ==
    /\ pc = "get_run"
    /\ requests' = Append(requests, [url |-> RunUrl(args), headers |-> headers])
    /\ \E r \in RunResponses : responses' = Append(responses, r)
    /\ pc' = "raise_for_status"
    /\ UNCHANGED <<environ, args, files, token, headers, all_workflows, stdout, error>>
    /\ UNCHANGED parseVars

\* lines 95-118 with a request that failed with 5xx issued again.
RaiseForStatusRetrying ==
    /\ pc = "raise_for_status"
    /\ LET response == responses[Len(responses)]
       IN  IF ~RaisesForStatus(response.status_code)
           THEN pc' = "parse" /\ UNCHANGED error
           ELSE IF response.status_code = 403
           THEN Raise(PermissionsException)
           ELSE IF response.status_code = 404
           THEN pc' = "get_repo" /\ UNCHANGED error
           ELSE IF Len(requests) < 2
           THEN pc' = "get_run" /\ UNCHANGED error
           ELSE Raise(HTTPError(response, RunUrl(args)))
    /\ UNCHANGED <<environ, args, files, token, headers, requests, responses,
                   all_workflows, stdout>>
    /\ UNCHANGED parseVars

\* lines 95-103 and 118: raise_for_status and the branch on the status
RaiseForStatus ==
    /\ pc = "raise_for_status"
    /\ LET response == responses[Len(responses)]
       IN  IF ~RaisesForStatus(response.status_code)
           THEN pc' = "parse" /\ UNCHANGED error
           ELSE IF response.status_code = 403
           THEN Raise(PermissionsException)
           ELSE IF response.status_code = 404
           THEN pc' = "get_repo" /\ UNCHANGED error
           ELSE Raise(HTTPError(response, RunUrl(args)))
    /\ UNCHANGED <<environ, args, files, token, headers, requests, responses,
                   all_workflows, stdout>>
    /\ UNCHANGED parseVars

\* lines 104-117: the request for the repository, and what its answer raises
GetRepo ==
    /\ pc = "get_repo"
    /\ requests' = Append(requests, [url |-> RepoUrl(args), headers |-> headers])
    /\ \E r \in RepoResponses :
        /\ responses' = Append(responses, r)
        /\ Raise(RepositoryCheck(token, args, r.status_code))
    /\ UNCHANGED <<environ, args, files, token, headers, all_workflows, stdout>>
    /\ UNCHANGED parseVars

\* lines 119-122
Parse ==
    /\ pc = "parse"
    /\ LET body == responses[Len(responses)].body
       IN  IF ~HasReferencedWorkflows(body)
           THEN Raise(KeyError) /\ UNCHANGED all_workflows
           ELSE IF ~AllParsed(ParseAll(body.referenced_workflows))
           THEN Raise([type |-> "AssertionError", message |-> ""])
                /\ UNCHANGED all_workflows
           ELSE /\ all_workflows' = ParseAll(body.referenced_workflows)
                /\ pc' = "resolve"
                /\ UNCHANGED error
    /\ UNCHANGED <<environ, args, files, token, headers, requests, responses, stdout>>
    /\ UNCHANGED parseVars

\* Lines 123-142 with the matches held in a list: ambiguity decided on the
\* number of matching entries.
ResolveCountingEntries ==
    /\ pc = "resolve"
    /\ LET workflows == Matching(all_workflows, args)
           count == Cardinality({k \in DOMAIN all_workflows : all_workflows[k] \in workflows})
       IN  IF workflows = {}
           THEN Raise(NoReference(args)) /\ UNCHANGED <<stdout, files>>
           ELSE IF count > 1
           THEN /\ \E order \in Orders(workflows) : Raise(MultipleVersions(args, order))
                /\ UNCHANGED <<stdout, files>>
           ELSE \E workflow \in workflows :
                /\ stdout' = Append(stdout, ResultLine(workflow))
                /\ files' = WriteOutput(files, environ, workflow)
                /\ pc' = "done"
                /\ UNCHANGED error
    /\ UNCHANGED <<environ, args, token, headers, requests, responses, all_workflows>>
    /\ UNCHANGED parseVars

\* lines 123-142
Resolve ==
    /\ pc = "resolve"
    /\ LET workflows == Matching(all_workflows, args)
       IN  IF workflows = {}
           THEN Raise(NoReference(args)) /\ UNCHANGED <<stdout, files>>
           ELSE IF Cardinality(workflows) > 1
           THEN /\ \E order \in Orders(workflows) : Raise(MultipleVersions(args, order))
                /\ UNCHANGED <<stdout, files>>
           ELSE \E workflow \in workflows :
                /\ stdout' = Append(stdout, ResultLine(workflow))
                /\ files' = WriteOutput(files, environ, workflow)
                /\ pc' = "done"
                /\ UNCHANGED error
    /\ UNCHANGED <<environ, args, token, headers, requests, responses, all_workflows>>
    /\ UNCHANGED parseVars

MainIdle ==
    /\ pc = "idle" /\ environ = <<>> /\ args = <<>> /\ files = <<>>
    /\ token = None /\ headers = <<>> /\ requests = <<>> /\ responses = <<>>
    /\ all_workflows = <<>> /\ stdout = <<>> /\ error = None

ParseIdle == path = <<>> /\ sha = "" /\ ppc = "idle" /\ result = <<>>

Init ==
    /\ pc = "start"
    /\ environ \in Environs
    /\ args \in Arguments
    /\ files \in InitialFiles
    /\ token = None
    /\ headers = <<>>
    /\ requests = <<>>
    /\ responses = <<>>
    /\ all_workflows = <<>>
    /\ stdout = <<>>
    /\ error = None
    /\ ParseIdle

Next == SetUp \/ GetRun \/ RaiseForStatus \/ GetRepo \/ Parse \/ Resolve

Spec == Init /\ [][Next]_vars

----------------------------------------------------------------------------
(* One call of from_github_api *)

Call ==
    /\ ppc = "call"
    /\ result' = from_github_api(path, sha)
    /\ ppc' = "returned"
    /\ UNCHANGED <<path, sha>>
    /\ UNCHANGED mainVars

InitParse ==
    /\ path \in Texts(MaxPieces)
    /\ sha \in ShaArgs
    /\ ppc = "call"
    /\ result = <<>>
    /\ MainIdle

NextParse == Call

SpecParse == InitParse /\ [][NextParse]_vars

----------------------------------------------------------------------------
(* Claims about from_github_api, checked under SpecParse *)

Contains(t, c) == \E k \in 1..Len(t) : t[k] = c
AtPositionsAfter(p, k) == {j \in (k + 1)..Len(p) : p[j] = "@"}
Minimum(S) == CHOOSE x \in S : \A y \in S : x <= y
Maximum(S) == CHOOSE x \in S : \A y \in S : x >= y

\* p read as R/.github/workflows/F@Ref with the given positions of the marker
\* (R is p[1..i]) and of the "@" (p[j]).
SplitAt(p, i, j) ==
    [repository |-> SubSeq(p, 1, i),
     file_name  |-> SubSeq(p, i + Len(Marker) + 1, j - 1),
     ref        |-> SubSeq(p, j + 1, Len(p))]

\* The split the claim names: at the first marker and at the last "@".
SplitAtLastAt(p) ==
    SplitAt(p, Minimum(MarkerAt(p)),
            Maximum(AtPositionsAfter(p, Minimum(MarkerAt(p)) + Len(Marker))))

\* The split at the first marker and at the first "@" after it.
SplitAtFirstAt(p) ==
    SplitAt(p, Minimum(MarkerAt(p)),
            Minimum(AtPositionsAfter(p, Minimum(MarkerAt(p)) + Len(Marker))))

\* p has a marker and an "@" somewhere after its first marker.
Splittable(p) ==
    /\ MarkerAt(p) # {}
    /\ AtPositionsAfter(p, Minimum(MarkerAt(p)) + Len(Marker)) # {}

NonEmptyParts(g) == g.repository # <<>> /\ g.file_name # <<>> /\ g.ref # <<>>

\* C1 as stated: for every path R/.github/workflows/F@Ref, split at the first
\* marker and at the last "@", with no "/" in F, and every non-empty sha, the
\* call returns repository = R, file_name = F, ref = Ref and that sha. Stated
\* here of the paths without a line break whose R, F and Ref are non-empty
\* alone, where it already fails.
C1_SplitsAtLastAt ==
    (/\ ppc = "returned"
     /\ sha # ""
     /\ Splittable(path)
     /\ ~Contains(path, "\n")
     /\ NonEmptyParts(SplitAtLastAt(path))
     /\ ~Contains(SplitAtLastAt(path).file_name, "/"))
    => result = ReusableWorkflow(sha, SplitAtLastAt(path))

\* C1 amended: for every path without a line break that reads
\* R/.github/workflows/F@Ref when split at the first marker and at the first
\* "@" after it, with no "/" in F, and every non-empty sha, the call returns
\* repository = R, file_name = F, ref = Ref and that sha; so when more than one
\* "@" follows the marker, ref is everything after the first of them.
C1_SplitsAtFirstAt ==
    (/\ ppc = "returned"
     /\ sha # ""
     /\ Splittable(path)
     /\ ~Contains(path, "\n")
     /\ ~Contains(SplitAtFirstAt(path).file_name, "/"))
    => result = ReusableWorkflow(sha, SplitAtFirstAt(path))

\* A call returned from a path with two "@" after the marker and R, F and
\* the text after the first "@" all non-empty.
C1_Witness ==
    /\ ppc = "returned"
    /\ sha # ""
    /\ result.ok
    /\ result.repository # <<>>
    /\ result.file_name # <<>>
    /\ Contains(result.ref, "@")
    /\ result.ref[1] # "@"
    /\ ~Contains(result.file_name, "/")

\* C2 as stated: a successful call with a non-empty sha returns a value whose
\* repository, file_name and ref are all non-empty.
C2_FieldsNonEmpty ==
    (ppc = "returned" /\ result.ok /\ sha # "")
    => /\ result.sha # ""
       /\ result.repository # <<>>
       /\ result.file_name # <<>>
       /\ result.ref # <<>>

\* p is <repository>/.github/workflows/<fileName>@<ref> for some choice of the
\* marker and of the "@", with no "/" in fileName.
HasShape(p) ==
    \E i \in MarkerAt(p) : \E j \in AtPositionsAfter(p, i + Len(Marker)) :
        ~Contains(SplitAt(p, i, j).file_name, "/")

\* C3 as stated: for every string that does not have that shape, the call
\* fails on its assertion and returns no ReusableWorkflow. Stated here of the
\* strings that cannot be split at all and of those whose parts around the
\* first marker and the first "@" after it are non-empty, where it already
\* fails.
C3_RejectsOtherShapes ==
    (/\ ppc = "returned"
     /\ ~HasShape(path)
     /\ Splittable(path) => NonEmptyParts(SplitAtFirstAt(path)))
    => result = AssertionError

----------------------------------------------------------------------------
(* Claims about main, checked under Spec *)

Answered == Len(responses) >= 1
RunStatus == responses[1].status_code
TokenSupplied == Truthy(EnvironGet(environ, "GH_TOKEN"))
OutputFileNamed == Truthy(EnvironGet(environ, "GITHUB_OUTPUT"))
NothingEmitted == stdout = <<>> /\ files \in InitialFiles
ParsingReached == pc \in {"parse", "resolve"} \/ all_workflows # <<>>

\* C4: a 403 answer to the run request ends the invocation with the
\* permission error; a 404 answer is followed by one request for the repository,
\* and the invocation ends with the repository-not-found error when that is
\* answered 404 (worded "check permissions" iff a token was supplied, "pass a
\* token" otherwise) and with the run-not-found error for any other status; in
\* none of these cases is referenced_workflows parsed or a result emitted.
C4_ClassifiesForbiddenAndNotFound ==
    (Answered /\ RunStatus \in {403, 404}) =>
        /\ ~ParsingReached
        /\ NothingEmitted
        /\ (pc = "done" /\ RunStatus = 403) =>
                /\ error = Some(PermissionsException)
                /\ Len(requests) = 1
        /\ (pc = "done" /\ RunStatus = 404) =>
                /\ Len(requests) = 2
                /\ requests[2].url = RepoUrl(args)
                /\ IF responses[2].status_code = 404
                   THEN IF TokenSupplied
                        THEN error = Some(RepositoryNotFoundCheckToken(args))
                        ELSE error = Some(RepositoryNotFoundPassToken(args))
                   ELSE error = Some(RunNotFound(args))

\* The run request was answered 404, the repository request 500, and the
\* invocation ended with the run-not-found error.
C4_Witness ==
    /\ pc = "done"
    /\ Len(responses) = 2
    /\ RunStatus = 404
    /\ responses[2].status_code = 500
    /\ error = Some(RunNotFound(args))

\* C5 as stated: every status of the run response outside 200..299 other than
\* 403 and 404 ends the invocation with the HTTP error, and referenced_workflows
\* is never read; only a 2xx status reaches parsing.
C5_OnlySuccessStatusesProceed ==
    (Answered /\ RunStatus \notin 200..299 /\ RunStatus \notin {403, 404}) =>
        /\ ~ParsingReached
        /\ pc = "done" => error = Some(HTTPError(responses[1], RunUrl(args)))

\* ---- what the response holds, read entry by entry ----

Entries == responses[1].body.referenced_workflows
SuccessfulRunResponse ==
    Answered /\ RunStatus \in 200..299 /\ HasReferencedWorkflows(responses[1].body)

\* The entry parses and names the target repository and file.
EntryMatches(e) ==
    LET w == from_github_api(e.path, e.sha)
    IN  /\ w.ok
        /\ w.repository = args.reusable_workflow_repository
        /\ w.file_name = args.reusable_workflow_file_name
MatchingEntries == {k \in 1..Len(Entries) : EntryMatches(Entries[k])}
EveryEntryParses == \A k \in 1..Len(Entries) : from_github_api(Entries[k].path, Entries[k].sha).ok
EntryRef(e) == from_github_api(e.path, e.sha).ref
\* The distinct <<ref, commit>> pairs of the matching entries.
MatchingPairs == {<<EntryRef(Entries[k]), Entries[k].sha>> : k \in MatchingEntries}

\* The invocation ended well and reported this commit and ref.
ResolvedTo(commit, ref) ==
    /\ error = None
    /\ stdout = <<"Reusable workflow version: " \o commit \o " (ref: " \o Str(ref) \o ")">>

NoVersionFound ==
    error = Some([type |-> "ValueError",
                  message |-> "No reference found for " \o TargetText(args)])

\* C6 as stated: after a successful run response, zero matching entries give
\* the no-version-found error and exactly one matching entry gives that
\* entry's commit and ref, whatever the other entries of the response are.
C6_DecidedByMatchingEntries ==
    (pc = "done" /\ SuccessfulRunResponse) =>
        /\ MatchingEntries = {} => NoVersionFound
        /\ \A k \in MatchingEntries :
                MatchingEntries = {k} => ResolvedTo(Entries[k].sha, EntryRef(Entries[k]))

\* C6 amended: after a successful run response all of whose entries parse,
\* zero matching entries give the no-version-found error and exactly one
\* matching entry gives that entry's commit and ref, whatever the other
\* entries are; an entry that does not parse, matching or not, ends the
\* invocation with the failed assertion instead.
C6_DecidedByMatchingEntriesWhenAllParse ==
    (pc = "done" /\ SuccessfulRunResponse) =>
        IF EveryEntryParses
        THEN /\ MatchingEntries = {} => NoVersionFound
             /\ \A k \in MatchingEntries :
                    MatchingEntries = {k} => ResolvedTo(Entries[k].sha, EntryRef(Entries[k]))
        ELSE error = Some([type |-> "AssertionError", message |-> ""])

\* The example of the specification, beside an entry that does not match:
\* target acme/infra build.yaml, path acme/infra/.github/workflows/build.yaml@v2.0.0
\* with sha abc123, resolved to abc123 and v2.0.0.
C6_Witness ==
    /\ pc = "done"
    /\ SuccessfulRunResponse
    /\ Len(Entries) = 2
    /\ Cardinality(MatchingEntries) = 1
    /\ args.reusable_workflow_file_name = BuildYaml
    /\ stdout = <<"Reusable workflow version: abc123 (ref: v2.0.0)">>
    /\ error = None

PairLine(pr) == "\n" \o Bullet \o " " \o Str(pr[1]) \o " (" \o pr[2] \o ")"
RECURSIVE PairLines(_)
PairLines(order) ==
    IF order = <<>> THEN "" ELSE PairLine(order[1]) \o PairLines(Tail(order))

\* The invocation ended with the ambiguous-version error, its message listing
\* each of the given pairs exactly once, in some order.
AmbiguousListing(pairs) ==
    \E order \in Orders(pairs) :
        error = Some([type |-> "ValueError",
                      message |-> "Cannot resolve multiple versions found for "
                                  \o TargetText(args) \o ":" \o PairLines(order)])

C8_RequestsAndTermination ==
    /\ [](/\ Len(requests) <= 2
          /\ Len(requests) >= 1 => requests[1].url = RunUrl(args)
          /\ Len(requests) = 2 =>
                /\ requests[2].url = RepoUrl(args)
                /\ requests[2].url # requests[1].url
                /\ responses[1].status_code = 404
          /\ pc = "done" =>
                /\ Len(requests) >= 1
                /\ Len(requests) = 2 <=> responses[1].status_code = 404
          /\ error # None => pc = "done")
    /\ [][error # None => UNCHANGED mainVars]_vars

\* An invocation that made both requests and ended with an exception.
C8_Witness ==
    /\ pc = "done"
    /\ Len(requests) = 2
    /\ error # None

\* The error report, the printed lines and the files an invocation shows.
Shown(e, out, fs, tok, hdrs) ==
    [report |-> IF e = None THEN None ELSE Some(ErrorReport(e[1], tok, hdrs)),
     stdout |-> out,
     files  |-> fs]

\* C9: every request carries an Authorization header iff GH_TOKEN is set and
\* non-empty, and then it is "Bearer " and the token; and what an invocation
\* with a non-empty token shows (error report, printed line, output file) is
\* what an invocation with any other non-empty token shows on the same
\* responses.
C9_TokenNotShown ==
    /\ \A k \in 1..Len(requests) :
            /\ "Authorization" \in DOMAIN requests[k].headers <=> TokenSupplied
            /\ TokenSupplied =>
                  requests[k].headers["Authorization"] = "Bearer " \o environ["GH_TOKEN"]
    /\ (pc = "done" /\ TokenSupplied) =>
            \E before \in InitialFiles : \A other \in Tokens \ {""} :
                \E o \in MainOutcomes(Some(other), args, environ, before, responses) :
                    Shown(o.error, o.stdout, o.files, Some(other), Headers(Some(other)))
                        = Shown(error, stdout, files, token, headers)

\* An invocation with a token ended with the repository-not-found error,
\* the one message whose wording depends on the token.
C9_Witness ==
    /\ pc = "done"
    /\ TokenSupplied
    /\ Len(requests) = 2
    /\ "Authorization" \in DOMAIN requests[2].headers
    /\ error = Some(RepositoryNotFoundCheckToken(args))

\* The invocation has resolved exactly one distinct version.
OneDistinctMatch ==
    /\ Answered
    /\ ~RaisesForStatus(RunStatus)
    /\ HasReferencedWorkflows(responses[1].body)
    /\ EveryEntryParses
    /\ Cardinality(MatchingPairs) = 1

\* C10: the result line is printed, and "sha=<commit>" appended to the file
\* GITHUB_OUTPUT names, iff the invocation resolved exactly one distinct match;
\* that step appends exactly one line after the file's previous content, and
\* every other step leaves the output and the file as they were.
C10_EmitsOnlyOnSuccess ==
    /\ [](pc = "done" =>
            /\ error = None <=> OneDistinctMatch
            /\ stdout # <<>> <=> OneDistinctMatch
            /\ Len(stdout) <= 1)
    /\ [][IF pc # "done" /\ pc' = "done" /\ error' = None
          THEN \E pr \in MatchingPairs :
                /\ stdout' = Append(stdout, "Reusable workflow version: " \o pr[2]
                                            \o " (ref: " \o Str(pr[1]) \o ")")
                /\ IF OutputFileNamed
                   THEN files' = [files EXCEPT ![environ["GITHUB_OUTPUT"]] =
                                        Append(@, "sha=" \o pr[2] \o "\n")]
                   ELSE files' = files
          ELSE stdout' = stdout /\ files' = files]_vars

\* A resolved invocation that appended its line to a file that held one.
C10_Witness ==
    /\ pc = "done"
    /\ error = None
    /\ OutputFileNamed
    /\ files[OutputPath] = <<"previous=1\n", "sha=abc123\n">>

============================================================================
